---- MODULE Spec2Model ----
(***************************************************************************)
(* pyperch.neural.backprop_nn: the BackpropModule feed-forward network and *)
(* the train_step_single override it installs on skorch's NeuralNet.       *)
(*                                                                         *)
(* A tensor is abstracted to its shape (batch, width) and to the index of  *)
(* the linear layer whose result it is; a linear layer to its in/out       *)
(* widths, the number of optimizer updates its parameters have received    *)
(* (0: the values set at construction) and whether a gradient is stored.   *)
(* One call of forward or of the training step is recorded in `last` as    *)
(* the sequence of module calls it made.                                   *)
(***************************************************************************)
EXTENDS Integers, Sequences, FiniteSets, TLC

\* ------------------------------------------------------------ bounds
MaxDim == 2
MaxHidden == 2
MaxBatch == 1
MaxInst == 2
MaxUpdates == 1

\* Constructor arguments tried: negative, zero and positive values.
Dims == (0 - 1)..MaxDim
HiddenLayerCounts == (0 - 1)..MaxHidden
\* Widths and batch sizes of the input batches tried.
Widths == 0..MaxDim
BatchSizes == 1..MaxBatch
\* The process-level specification builds several networks from few shapes.
ProcDims == {0 - 1, 1, MaxDim}
ProcHiddenLayerCounts == {0, MaxHidden}

VARIABLES
    NeuralNet_train_step_single, \* the training-step entry of skorch's NeuralNet class
    instances,                   \* the BackpropModule objects alive, in construction order
    cuda_available,              \* torch.cuda.is_available() in this process
    last                         \* the last call made and what it did

vars == <<NeuralNet_train_step_single, instances, cuda_available, last>>

\* ------------------------------------------------------------ values
\* The training step the host framework ships.
HostDefaultStep == [fn |-> "host_default", closure |-> <<>>]

\* The function object `train_step_single` defined at lines 94-103: its code
\* and the variables of the enclosing scope it captures (none: the enclosing
\* function is a static method without arguments).
BackpropStep == [fn |-> "backprop", closure |-> <<>>]

NoTensor == [batch |-> 0, width |-> 0, layer |-> 0 - 1]
NoLoss == [y_pred |-> NoTensor, target |-> 0, backpropagated |-> FALSE]

NoCall == [op |-> "none", self |-> 0, ok |-> TRUE, recipe |-> "none",
           X |-> NoTensor, trace |-> <<>>, y |-> NoTensor, loss |-> NoLoss,
           args |-> <<>>, allocated |-> 0]

Max0(n) == IF n > 0 THEN n ELSE 0

\* ------------------------------------------------------------ construction
\* nn.Linear(in_features, out_features): a fresh parameter set.
Linear(in_features, out_features) ==
    [in_features |-> in_features, out_features |-> out_features,
     updates |-> 0, grad |-> FALSE]

\* torch allocates a (out_features, in_features) weight: a negative size
\* raises, a zero size is allocated (an empty tensor).
LinearAllocates(in_features, out_features) ==
    in_features >= 0 /\ out_features >= 0

\* A faulty variant of LayerArgs (C1): the output layer keeps the hidden width.
LayerArgs_outWidth(input_dim, output_dim, hidden_units, hidden_layers) ==
    <<<<input_dim, hidden_units>>>>
        \o [k \in 1..Max0(hidden_layers) |-> <<hidden_units, hidden_units>>]
        \o <<<<hidden_units, hidden_units>>>>

\* A faulty variant of LayerArgs (C5): one hidden layer too many.
LayerArgs_extra(input_dim, output_dim, hidden_units, hidden_layers) ==
    <<<<input_dim, hidden_units>>>>
        \o [k \in 1..(Max0(hidden_layers) + 1) |-> <<hidden_units, hidden_units>>]
        \o <<<<hidden_units, output_dim>>>>

\* The (in_features, out_features) of the nn.Linear calls of __init__, in
\* the order they are appended; range(n) is empty for n <= 0.
LayerArgs(input_dim, output_dim, hidden_units, hidden_layers) ==
    <<<<input_dim, hidden_units>>>>
        \o [k \in 1..Max0(hidden_layers) |-> <<hidden_units, hidden_units>>]
        \o <<<<hidden_units, output_dim>>>>

\* self.layers.append(nn.Linear(...)) for each entry of args in turn; the
\* first nn.Linear that raises ends the constructor.
RECURSIVE Allocate(_, _)
Allocate(args, done) ==
    IF Len(done) = Len(args) THEN [ok |-> TRUE, layers |-> done]
    ELSE LET a == args[Len(done) + 1] IN
         IF LinearAllocates(a[1], a[2])
         THEN Allocate(args, Append(done, Linear(a[1], a[2])))
         ELSE [ok |-> FALSE, layers |-> done]

\* add_to(cls)(func): installs func as the attribute of cls named after it.
add_to(entry, func) == func

\* A faulty variant of register_backprop_training_step (C8): the function is
\* defined but not installed.
register_notInstalled(entry, by) == entry

\* A faulty variant of register_backprop_training_step (C9): the function
\* captures the arguments of the constructor that registered it.
register_capturing(entry, by) == add_to(entry, [BackpropStep EXCEPT !.closure = by])

\* BackpropModule.register_backprop_training_step(), called by the
\* constructor whose dimension arguments are `by`.
register_backprop_training_step(entry, by) == add_to(entry, BackpropStep)

\* ------------------------------------------------------------ forward
Tensor(batch, width, layer) == [batch |-> batch, width |-> width, layer |-> layer]

\* Python's seq[i] on a list of n entries, as a position 1..n; 0: IndexError.
PyIndex(n, i) ==
    IF i >= 0 /\ i < n THEN i + 1
    ELSE IF i < 0 /\ i >= 0 - n THEN n + i + 1
    ELSE 0

\* X = self.layers[i](X): raises when the index is out of range or the
\* width of X is not the layer's in_features.
CallLayer(self, i, st) ==
    IF ~st.ok THEN st
    ELSE LET p == PyIndex(Len(self.layers), i) IN
         IF p = 0 THEN [st EXCEPT !.ok = FALSE]
         ELSE IF self.layers[p].in_features # st.X.width THEN [st EXCEPT !.ok = FALSE]
         ELSE [ok |-> TRUE,
               X |-> Tensor(st.X.batch, self.layers[p].out_features, p - 1),
               trace |-> Append(st.trace,
                   [op |-> "linear", layer |-> p - 1, received |-> st.X.width,
                    width |-> self.layers[p].out_features])]

\* X = f(X) for an elementwise module f (activation, dropout, output
\* activation): the shape is kept.
CallFn(f, st) ==
    IF ~st.ok THEN st
    ELSE [st EXCEPT !.trace = Append(@,
              [op |-> f, layer |-> st.X.layer, received |-> st.X.width,
               width |-> st.X.width])]

\* A faulty variant of HiddenLoop (C3): the hidden layers use the output activation.
RECURSIVE HiddenLoop_outAct(_, _, _)
HiddenLoop_outAct(self, i, st) ==
    IF i >= self.hidden_layers + 1 THEN st
    ELSE HiddenLoop_outAct(self, i + 1,
             CallFn("dropout", CallFn("output_activation", CallLayer(self, i, st))))

\* A faulty variant of HiddenLoop (C6): the loop stops one layer early.
RECURSIVE HiddenLoop_short(_, _, _)
HiddenLoop_short(self, i, st) ==
    IF i >= self.hidden_layers THEN st
    ELSE HiddenLoop_short(self, i + 1,
             CallFn("dropout", CallFn("activation", CallLayer(self, i, st))))

\* for i in range(1, self.hidden_layers+1), from index i on.
RECURSIVE HiddenLoop(_, _, _)
HiddenLoop(self, i, st) ==
    IF i >= self.hidden_layers + 1 THEN st
    ELSE HiddenLoop(self, i + 1,
             CallFn("dropout", CallFn("activation", CallLayer(self, i, st))))

\* A faulty variant of forward (C2): dropout also follows the output activation.
forward_dropoutLast(self, X) ==
    LET s0 == [ok |-> TRUE, X |-> X, trace |-> <<>>]
        s1 == CallFn("dropout", CallFn("activation", CallLayer(self, 0, s0)))
        s2 == HiddenLoop(self, 1, s1)
    IN  CallFn("dropout",
            CallFn("output_activation", CallLayer(self, self.hidden_layers + 1, s2)))

\* BackpropModule.forward(self, X).
forward(self, X) ==
    LET s0 == [ok |-> TRUE, X |-> X, trace |-> <<>>]
        s1 == CallFn("dropout", CallFn("activation", CallLayer(self, 0, s0)))
        s2 == HiddenLoop(self, 1, s1)
    IN  CallFn("output_activation", CallLayer(self, self.hidden_layers + 1, s2))

\* ------------------------------------------------------------ training step
\* The layers a forward trace went through (0-based indices).
LayersUsed(trace) == {trace[k].layer : k \in {j \in 1..Len(trace) : trace[j].op = "linear"}}

\* loss.backward(): a gradient is stored for every parameter the loss
\* depends on.
Backward(layers, trace) ==
    [p \in 1..Len(layers) |->
        IF (p - 1) \in LayersUsed(trace) THEN [layers[p] EXCEPT !.grad = TRUE]
        ELSE layers[p]]

\* A faulty variant of train_step_single (C7): loss.backward() is left out.
train_step_single_noBackward(self, batch) ==
    LET f == forward(self, batch.X)
        pre == <<[op |-> "set_training", layer |-> 0 - 1, received |-> 0, width |-> 0],
                 [op |-> "unpack_data", layer |-> 0 - 1, received |-> 0, width |-> 0],
                 [op |-> "infer", layer |-> 0 - 1, received |-> batch.X.width, width |-> 0]>>
        post == <<[op |-> "get_loss", layer |-> f.X.layer, received |-> f.X.width, width |-> 0]>>
    IN  IF ~f.ok
        THEN [ok |-> FALSE, trace |-> pre \o f.trace, y_pred |-> NoTensor,
              loss |-> NoLoss, layers |-> self.layers]
        ELSE [ok |-> TRUE, trace |-> pre \o f.trace \o post, y_pred |-> f.X,
              loss |-> [y_pred |-> f.X, target |-> batch.y, backpropagated |-> FALSE],
              layers |-> self.layers]

\* A faulty variant of train_step_single (C10): the step also applies the
\* gradients to the parameters.
train_step_single_updating(self, batch) ==
    LET f == forward(self, batch.X)
        pre == <<[op |-> "set_training", layer |-> 0 - 1, received |-> 0, width |-> 0],
                 [op |-> "unpack_data", layer |-> 0 - 1, received |-> 0, width |-> 0],
                 [op |-> "infer", layer |-> 0 - 1, received |-> batch.X.width, width |-> 0]>>
        post == <<[op |-> "get_loss", layer |-> f.X.layer, received |-> f.X.width, width |-> 0],
                  [op |-> "backward", layer |-> 0 - 1, received |-> 0, width |-> 0]>>
    IN  IF ~f.ok
        THEN [ok |-> FALSE, trace |-> pre \o f.trace, y_pred |-> NoTensor,
              loss |-> NoLoss, layers |-> self.layers]
        ELSE [ok |-> TRUE, trace |-> pre \o f.trace \o post, y_pred |-> f.X,
              loss |-> [y_pred |-> f.X, target |-> batch.y, backpropagated |-> TRUE],
              layers |-> [p \in 1..Len(self.layers) |->
                  [Backward(self.layers, f.trace)[p] EXCEPT
                      !.updates = IF @ < MaxUpdates THEN @ + 1 ELSE @]]]

\* train_step_single(self, batch), the function installed on NeuralNet;
\* self.infer calls the forward of the module self wraps.  An exception of
\* the forward pass propagates: nothing after it runs.
train_step_single(self, batch) ==
    LET f == forward(self, batch.X)
        pre == <<[op |-> "set_training", layer |-> 0 - 1, received |-> 0, width |-> 0],
                 [op |-> "unpack_data", layer |-> 0 - 1, received |-> 0, width |-> 0],
                 [op |-> "infer", layer |-> 0 - 1, received |-> batch.X.width, width |-> 0]>>
        post == <<[op |-> "get_loss", layer |-> f.X.layer, received |-> f.X.width, width |-> 0],
                  [op |-> "backward", layer |-> 0 - 1, received |-> 0, width |-> 0]>>
    IN  IF ~f.ok
        THEN [ok |-> FALSE, trace |-> pre \o f.trace, y_pred |-> NoTensor,
              loss |-> NoLoss, layers |-> self.layers]
        ELSE [ok |-> TRUE, trace |-> pre \o f.trace \o post, y_pred |-> f.X,
              loss |-> [y_pred |-> f.X, target |-> batch.y, backpropagated |-> TRUE],
              layers |-> Backward(self.layers, f.trace)]

\* ------------------------------------------------------------ actions
Init ==
    /\ NeuralNet_train_step_single = HostDefaultStep
    /\ instances = <<>>
    /\ cuda_available \in BOOLEAN
    /\ last = NoCall

\* BackpropModule(input_dim, output_dim, hidden_units, hidden_layers): the
\* override is registered first, then the layers are allocated; when an
\* allocation raises, no instance results.
Construct(input_dim, output_dim, hidden_units, hidden_layers) ==
    LET built == Allocate(LayerArgs(input_dim, output_dim, hidden_units, hidden_layers), <<>>)
        self == [input_dim |-> input_dim, output_dim |-> output_dim,
                 hidden_units |-> hidden_units, hidden_layers |-> hidden_layers,
                 device |-> IF cuda_available THEN "cuda" ELSE "cpu",
                 layers |-> built.layers]
    IN  /\ NeuralNet_train_step_single' =
              register_backprop_training_step(NeuralNet_train_step_single,
                  <<input_dim, output_dim, hidden_units, hidden_layers>>)
        /\ instances' = IF built.ok THEN Append(instances, self) ELSE instances
        /\ last' = [NoCall EXCEPT !.op = "construct", !.ok = built.ok,
                       !.self = IF built.ok THEN Len(instances) + 1 ELSE 0,
                       !.args = <<input_dim, output_dim, hidden_units, hidden_layers>>,
                       !.allocated = Len(built.layers)]
        /\ UNCHANGED cuda_available

\* instances[i].forward(X) for a batch X of the given shape.
Forward(i, batch, width) ==
    LET X == Tensor(batch, width, 0 - 1)
        f == forward(instances[i], X)
    IN  /\ last' = [NoCall EXCEPT !.op = "forward", !.self = i, !.ok = f.ok, !.X = X,
                       !.trace = f.trace, !.y = IF f.ok THEN f.X ELSE NoTensor]
        /\ UNCHANGED <<NeuralNet_train_step_single, instances, cuda_available>>

\* One training iteration of the host framework on the net wrapping
\* instances[i]: it calls whatever NeuralNet.train_step_single is.
TrainStep(i, batch, width) ==
    LET X == Tensor(batch, width, 0 - 1)
        b == [X |-> X, y |-> batch]
        r == train_step_single(instances[i], b)
    IN  /\ IF NeuralNet_train_step_single.fn = "backprop"
           THEN /\ instances' = [instances EXCEPT ![i].layers = r.layers]
                /\ last' = [NoCall EXCEPT !.op = "train", !.self = i, !.ok = r.ok,
                               !.recipe = "backprop", !.X = X, !.trace = r.trace,
                               !.y = r.y_pred, !.loss = r.loss]
           ELSE /\ instances' = instances
                /\ last' = [NoCall EXCEPT !.op = "train", !.self = i,
                               !.recipe = NeuralNet_train_step_single.fn, !.X = X]
        /\ UNCHANGED <<NeuralNet_train_step_single, cuda_available>>

\* optimizer.step() of the host framework on the parameters of instances[i]:
\* every parameter with a stored gradient is updated.
OptimizerStep(i) ==
    /\ \E p \in 1..Len(instances[i].layers) :
          instances[i].layers[p].grad /\ instances[i].layers[p].updates < MaxUpdates
    /\ instances' = [instances EXCEPT ![i].layers =
          [p \in 1..Len(@) |->
              IF @[p].grad /\ @[p].updates < MaxUpdates
              THEN [@[p] EXCEPT !.updates = @ + 1] ELSE @[p]]]
    /\ last' = [NoCall EXCEPT !.op = "optimizer", !.self = i]
    /\ UNCHANGED <<NeuralNet_train_step_single, cuda_available>>

\* One network at a time, every constructor argument tried.
Next ==
    \/ /\ Len(instances) < 1
       /\ \E input_dim \in Dims, output_dim \in Dims, hidden_units \in Dims,
             hidden_layers \in HiddenLayerCounts :
             Construct(input_dim, output_dim, hidden_units, hidden_layers)
    \/ \E i \in 1..Len(instances), batch \in BatchSizes, width \in Widths :
          Forward(i, batch, width)
    \/ \E i \in 1..Len(instances), batch \in BatchSizes, width \in Widths :
          TrainStep(i, batch, width)
    \/ \E i \in 1..Len(instances) : OptimizerStep(i)

Spec == Init /\ [][Next]_vars

\* Several networks in one process, built from a few shapes and called with
\* batches of one size.
NextProc ==
    \/ /\ Len(instances) < MaxInst
       /\ \E input_dim \in ProcDims, hidden_layers \in ProcHiddenLayerCounts :
             Construct(input_dim, 1, MaxDim, hidden_layers)
    \/ \E i \in 1..Len(instances), width \in ProcDims \cap Widths :
          Forward(i, 1, width)
    \/ \E i \in 1..Len(instances), width \in ProcDims \cap Widths :
          TrainStep(i, 1, width)

SpecProc == Init /\ [][NextProc]_vars

\* ------------------------------------------------------------ properties
\* The instance the last call was made on.
Self == instances[last.self]

ValidConfig(self) ==
    /\ self.input_dim > 0 /\ self.output_dim > 0
    /\ self.hidden_units > 0 /\ self.hidden_layers >= 0

IsLinear(e) == e.op = "linear"
LinearCalls(trace) == SelectSeq(trace, IsLinear)
Count(trace, name) == Cardinality({k \in 1..Len(trace) : trace[k].op = name})

Config(self) ==
    <<self.input_dim, self.output_dim, self.hidden_units, self.hidden_layers, self.device>>
Params(self) ==
    [p \in 1..Len(self.layers) |->
        <<self.layers[p].in_features, self.layers[p].out_features, self.layers[p].updates>>]

C2_DropoutPlacement ==
    (last.op = "forward" /\ Self.hidden_layers >= 0) =>
        LET t == last.trace IN
        /\ \A k \in 1..Len(t) :
              /\ t[k].op = "activation" => (k < Len(t) /\ t[k + 1].op = "dropout")
              /\ t[k].op = "dropout" => (k > 1 /\ t[k - 1].op = "activation")
        /\ last.ok =>
              /\ Count(t, "dropout") = Self.hidden_layers + 1
              /\ Count(t, "activation") = Self.hidden_layers + 1
              /\ t[Len(t)].op = "output_activation"

C2_Witness ==
    /\ last.op = "forward" /\ last.ok /\ Self.hidden_layers = MaxHidden
    /\ Count(last.trace, "dropout") = MaxHidden + 1

\* C3: a forward call that returns applied the output activation exactly
\* once, to the result of layer hidden_layers+1, and applied the hidden
\* activation to the result of every other layer.
C3_OutputActivationOnce ==
    (last.op = "forward" /\ last.ok /\ Self.hidden_layers >= 0) =>
        LET t == last.trace IN
        /\ Count(t, "output_activation") = 1
        /\ \A k \in 1..Len(t) :
              /\ t[k].op = "output_activation" =>
                    (t[k].layer = Self.hidden_layers + 1 /\ t[k - 1].op = "linear")
              /\ (t[k].op = "linear" /\ t[k].layer # Self.hidden_layers + 1) =>
                    (t[k + 1].op = "activation" /\ t[k + 1].layer = t[k].layer)
              /\ (t[k].op = "linear" /\ t[k].layer = Self.hidden_layers + 1) =>
                    t[k + 1].op = "output_activation"

C3_Witness ==
    /\ last.op = "forward" /\ last.ok /\ Self.hidden_layers >= 1
    /\ Count(last.trace, "output_activation") = 1
    /\ Count(last.trace, "activation") >= 2

\* C4: a constructor call with a non-positive input_dim, output_dim or
\* hidden_units fails, and has allocated no linear layer when it does.
C4_RejectsNonPositive ==
    (last.op = "construct" /\ \E k \in 1..3 : last.args[k] <= 0) =>
        (~last.ok /\ last.allocated = 0)

\* C5: an instance built with hidden_layers = n >= 0 holds n+2 layers, the
\* input layer (input_dim to hidden_units), n hidden layers (hidden_units to
\* hidden_units) and the output layer (hidden_units to output_dim), in every
\* state, whatever calls were made on it.
C5_LayerStack ==
    \A i \in 1..Len(instances) :
        LET self == instances[i]
            n == self.hidden_layers
        IN  n >= 0 =>
            /\ Len(self.layers) = n + 2
            /\ self.layers[1].in_features = self.input_dim
            /\ self.layers[1].out_features = self.hidden_units
            /\ \A p \in 2..(n + 1) :
                  /\ self.layers[p].in_features = self.hidden_units
                  /\ self.layers[p].out_features = self.hidden_units
            /\ self.layers[n + 2].in_features = self.hidden_units
            /\ self.layers[n + 2].out_features = self.output_dim

C5_Witness ==
    /\ last.op = "train" /\ last.ok /\ ValidConfig(Self)
    /\ Self.hidden_layers = MaxHidden /\ Len(Self.layers) = MaxHidden + 2
    /\ Self.input_dim # Self.hidden_units /\ Self.hidden_units # Self.output_dim

\* C6: a forward call that returns ran the layers 0, 1, ..., hidden_layers+1
\* in this order, each once; for hidden_layers = 0 it ran layer 0 then
\* layer 1 and the body of the hidden loop did not run.
C6_EveryLayerOnce ==
    (last.op = "forward" /\ last.ok /\ Self.hidden_layers >= 0) =>
        LET lin == LinearCalls(last.trace) IN
        /\ Len(lin) = Self.hidden_layers + 2
        /\ \A k \in 1..Len(lin) : lin[k].layer = k - 1
        /\ Self.hidden_layers = 0 =>
              /\ [k \in 1..Len(last.trace) |-> last.trace[k].op] =
                    <<"linear", "activation", "dropout", "linear", "output_activation">>
              /\ last.trace[1].layer = 0 /\ last.trace[4].layer = 1

C6_Witness ==
    /\ last.op = "forward" /\ last.ok /\ Self.hidden_layers = 0
    /\ Len(LinearCalls(last.trace)) = 2

\* C7: the backprop training step sets training mode, unpacks the batch,
\* runs the forward pass on the batch inputs, computes the loss of the
\* predictions against the targets and back-propagates it, in this order;
\* it returns that loss and those predictions.  A step whose forward pass
\* raises stops there.
C7_TrainStepOrder ==
    (last.op = "train" /\ last.recipe = "backprop") =>
        LET t == last.trace
            f == forward(Self, last.X)
            n == Len(f.trace)
        IN  /\ Len(t) >= 3 + n
            /\ t[1].op = "set_training" /\ t[2].op = "unpack_data" /\ t[3].op = "infer"
            /\ t[3].received = last.X.width
            /\ SubSeq(t, 4, 3 + n) = f.trace
            /\ last.ok = f.ok
            /\ last.ok =>
                  /\ Len(t) = n + 5
                  /\ t[n + 4].op = "get_loss" /\ t[n + 5].op = "backward"
                  /\ last.y = f.X
                  /\ last.loss.y_pred = last.y
                  /\ last.loss.target = last.X.batch
                  /\ last.loss.backpropagated
            /\ ~last.ok => Len(t) = 3 + n

C7_Witness ==
    /\ last.op = "train" /\ last.recipe = "backprop" /\ last.ok
    /\ ValidConfig(Self) /\ Self.hidden_layers >= 1
    /\ last.loss.backpropagated /\ last.y.width = Self.output_dim

\* C8: once a constructor has run, the training-step entry of NeuralNet is
\* the backprop step; no later step changes that, and every training
\* iteration, on any instance, runs the backprop recipe.
C8_OverrideStays ==
    /\ [][NeuralNet_train_step_single.fn = "backprop" =>
              NeuralNet_train_step_single'.fn = "backprop"]_vars
    /\ [](last.op # "none" => NeuralNet_train_step_single.fn = "backprop")
    /\ [](last.op = "train" => last.recipe = "backprop")

C8_Witness ==
    /\ Len(instances) = MaxInst
    /\ last.op = "train" /\ last.ok /\ last.self = 1
    /\ NeuralNet_train_step_single.fn = "backprop"

\* C9: every constructor call installs the training step, and installing it
\* again changes nothing: the entry after any further construction is the
\* entry after the first, whatever the arguments of the constructor.
C9_Reregistration ==
    [][/\ last'.op = "construct" => NeuralNet_train_step_single' = BackpropStep
       /\ NeuralNet_train_step_single # HostDefaultStep =>
              NeuralNet_train_step_single' = NeuralNet_train_step_single]_vars

C9_Witness ==
    /\ Len(instances) >= 2
    /\ Config(instances[1]) # Config(instances[2])
    /\ last.op = "construct" /\ last.ok
    /\ NeuralNet_train_step_single = BackpropStep

\* C10: a forward call or a training step leaves the layer widths, the
\* parameter values and the configuration of every instance as they were;
\* only the optimizer changes parameter values, and nothing changes widths
\* or configuration.
C10_ParametersKept ==
    [][/\ last'.op \in {"forward", "train"} =>
              /\ Len(instances') = Len(instances)
              /\ \A i \in 1..Len(instances) :
                    /\ Params(instances'[i]) = Params(instances[i])
                    /\ Config(instances'[i]) = Config(instances[i])
       /\ \A i \in 1..Len(instances) :
              /\ i <= Len(instances')
              /\ Config(instances'[i]) = Config(instances[i])
              /\ Len(instances'[i].layers) = Len(instances[i].layers)]_vars

C10_Witness ==
    /\ last.op = "train" /\ last.ok
    /\ \A p \in 1..Len(Self.layers) : Self.layers[p].grad /\ Self.layers[p].updates = 0

====
